---- MODULE Spec2Model ----
(***************************************************************************)
(* LLThumbnailCtrl (indra/newview/llthumbnailctrl.cpp): the thumbnail      *)
(* widget's value resolution (setValue), draw, hover and destruction, and  *)
(* the collaborators it reads and writes: the texture manager's fetched    *)
(* textures, the UI image registry, the privilege oracle and the base      *)
(* class LLUICtrl.                                                         *)
(***************************************************************************)
EXTENDS Integers, Sequences, FiniteSets, TLC

VARIABLES
    alive,                    \* FALSE once ~LLThumbnailCtrl has run
    mBorderVisible,           \* p.border_visible()
    mInteractable,            \* p.interactable()
    mShowLoadingPlaceholder,  \* p.show_loading()
    rect,                     \* getLocalRect(): <<width, height>>
    mValue,                   \* the value held by LLUICtrl (LLUICtrl::setValue)
    mImageAssetID,            \* LLUUID
    mTexturep,                \* LLPointer<LLViewerFetchedTexture>
    mImagep,                  \* LLPointer<LLUIImage>
    tex,                      \* the texture manager's fetched textures
    texRefs,                  \* references this widget's mTexturep holds, per texture
    imgRefs,                  \* references this widget's mImagep holds, per UI image
    pixelsAtSet,              \* had the held texture produced pixels when setValue fetched it
    lastOp,                   \* the operation that ran last
    lastArg,                  \* the argument of that setValue
    uiQueried,                \* names that setValue passed to LLUI::getUIImage
    drawIn,                   \* what that draw read from the texture and the oracle
    drawn,                    \* the primitives that draw issued
    hoverOut                  \* what that handleHover read and did

vars == <<alive, mBorderVisible, mInteractable, mShowLoadingPlaceholder, rect,
          mValue, mImageAssetID, mTexturep, mImagep, tex, texRefs, imgRefs,
          pixelsAtSet, lastOp, lastArg, uiQueried, drawIn, drawn, hoverOut>>

----------------------------------------------------------------------------
(* Bounds of the model *)

\* bytes of an identifier (LLUUID has 16; the text form scales with it)
UUID_BYTES == 2

\* discard levels run from -1 (no data yet) to MaxDiscard
MaxDiscard == 2

\* the local rectangle is MaxSide high, and MaxSide or MaxSide + 1 wide
MaxSide == 3

----------------------------------------------------------------------------
(* LLUUID (llcommon/lluuid.cpp): null, the text form, validate and parse *)

NullID == 0
NULLPTR == 0

RECURSIVE Pow(_, _)
Pow(b, n) == IF n = 0 THEN 1 ELSE b * Pow(b, n - 1)

HexLower == <<"0","1","2","3","4","5","6","7","8","9","a","b","c","d","e","f">>
HexUpper == <<"0","1","2","3","4","5","6","7","8","9","A","B","C","D","E","F">>

IsHex(c) == \E i \in 1..16 : HexLower[i] = c \/ HexUpper[i] = c
HexVal(c) == (CHOOSE i \in 1..16 : HexLower[i] = c \/ HexUpper[i] = c) - 1

\* length of the text form: two digits per byte plus the hyphens
UUID_STR_LEN == 2 * UUID_BYTES + 1

\* a hyphen precedes these bytes (4, 6, 8 and 10 of the 16); the "broken"
\* format lacks the last one
HyphenBefore(i) == i = 1
BrokenHyphen(i) == i = 1

ByteOf(id, i) == (id \div Pow(256, UUID_BYTES - 1 - i)) % 256

\* LLUUID::toString, in either letter case and in either format
RECURSIVE toStringFrom(_, _, _, _)
toStringFrom(id, i, upper, broken) ==
    IF i = UUID_BYTES THEN <<>>
    ELSE LET digits == IF upper THEN HexUpper ELSE HexLower
             b == ByteOf(id, i)
             hyphen == IF HyphenBefore(i) /\ ~(broken /\ BrokenHyphen(i))
                       THEN <<"-">> ELSE <<>>
         IN hyphen \o <<digits[(b \div 16) + 1], digits[(b % 16) + 1]>>
                   \o toStringFrom(id, i + 1, upper, broken)

toString(id, upper, broken) == toStringFrom(id, 0, upper, broken)

\* LLUUID::validate: the length, then two hex digits per byte; the separator
\* position is skipped, not read
RECURSIVE validateFrom(_, _, _, _)
validateFrom(s, i, cur_pos, broken) ==
    IF i = UUID_BYTES THEN TRUE
    ELSE LET pos == IF HyphenBefore(i) /\ ~(broken /\ BrokenHyphen(i))
                    THEN cur_pos + 1 ELSE cur_pos
         IN /\ IsHex(s[pos])
            /\ IsHex(s[pos + 1])
            /\ validateFrom(s, i + 1, pos + 2, broken)

validateString(s) ==
    IF Len(s) = UUID_STR_LEN THEN validateFrom(s, 0, 1, FALSE)
    ELSE IF Len(s) = UUID_STR_LEN - 1 THEN validateFrom(s, 0, 1, TRUE)
    ELSE FALSE

\* LLUUID::LLUUID(const std::string&) / LLUUID::set: null on an empty or a
\* malformed string, else the bytes read from the hex digits
RECURSIVE setFrom(_, _, _, _, _)
setFrom(s, i, cur_pos, broken, acc) ==
    IF i = UUID_BYTES THEN acc
    ELSE LET pos == IF HyphenBefore(i) /\ ~(broken /\ BrokenHyphen(i))
                    THEN cur_pos + 1 ELSE cur_pos
         IN IF ~(IsHex(s[pos]) /\ IsHex(s[pos + 1])) THEN NullID
            ELSE setFrom(s, i + 1, pos + 2, broken,
                         acc * 256 + HexVal(s[pos]) * 16 + HexVal(s[pos + 1]))

setString(s) ==
    IF Len(s) = UUID_STR_LEN THEN setFrom(s, 0, 1, FALSE, 0)
    ELSE IF Len(s) = UUID_STR_LEN - 1 THEN setFrom(s, 0, 1, TRUE, 0)
    ELSE NullID

----------------------------------------------------------------------------
(* LLSD values handed to setValue *)

SDUndef == [type |-> "undef", str |-> <<>>, uuid |-> NullID]
SDString(s) == [type |-> "string", str |-> s, uuid |-> NullID]
SDUUID(u) == [type |-> "uuid", str |-> <<>>, uuid |-> u]
\* a variant that is neither a string nor an identifier (an LLSD integer)
SDInteger == [type |-> "integer", str |-> <<>>, uuid |-> NullID]

isString(v) == v.type = "string"
isUUID(v) == v.type = "uuid"

\* the identifiers of the model: null, and two asset identifiers
Ids == {NullID, 1, 10}
TexIds == Ids \ {NullID}

IconName == <<"i", "c", "o", "n">>
FlatName == <<"f", "l", "a", "t">>
NoName == <<"n", "o">>
EmptyName == <<>>

UUIDStrings ==
    {toString(id, FALSE, FALSE) : id \in Ids}
        \cup {toString(10, TRUE, FALSE), toString(1, FALSE, TRUE)}

Strs == UUIDStrings \cup {IconName, FlatName, NoName, EmptyName}

\* validate and the string constructor on the strings of the model, computed
\* once
validateTable == [s \in Strs |-> validateString(s)]
setTable == [s \in Strs |-> setString(s)]
validate(s) == validateTable[s]
LLUUIDFromString(s) == setTable[s]

Values == {SDUndef, SDInteger} \cup {SDUUID(u) : u \in Ids}
              \cup {SDString(s) : s \in Strs}

----------------------------------------------------------------------------
(* The texture manager and the UI image registry *)

\* a texture the list does not hold yet; its load state (isFullyLoaded,
\* getDiscardLevel, getWidth, getHeight) belongs to the loading machinery and
\* is read afresh at each call
FreshTexture ==
    [mID |-> NullID, known |-> <<0, 0>>, boost |-> "BOOST_NONE", saveRaw |-> FALSE]

\* LLViewerTextureManager::getFetchedTexture: the texture of that identifier,
\* created and entered in the list when it is not there yet
getFetchedTexture(tx, id) ==
    IF tx[id].mID = NullID THEN [tx EXCEPT ![id].mID = id] ELSE tx

\* LLGLTexture::getComponents
getComponents(t) == IF t = 1 THEN 3 ELSE 4

\* what getWidth and getHeight can return: nothing while the fetch has
\* produced no pixels, else the image's size
NoPixels == <<0, 0>>
NaturalSizes == {NoPixels, <<16, 8>>}

\* LLUI::getUIImage: image 1 is backed by a fetched texture, image 2 is not,
\* every other name is not registered
UIImages == {1, 2}
getUIImage(name) ==
    IF name = IconName THEN 1 ELSE IF name = FlatName THEN 2 ELSE NULLPTR
IsFetchedTexture(img) == img = 1
UIImageTextureID(img) == 11

\* LLPointer: unref of the object released, ref of the object taken
Unref(refs, h) == IF h = NULLPTR THEN refs ELSE [refs EXCEPT ![h] = @ - 1]
Ref(refs, h) == IF h = NULLPTR THEN refs ELSE [refs EXCEPT ![h] = @ + 1]

----------------------------------------------------------------------------
(* LLThumbnailCtrl::setValue *)

\* Coerce without the coercion: the string is kept as it is
Coerce_KeepsString(value) == value

\* Coerce without the validate test: every string is parsed
Coerce_AnyString(value) ==
    IF isString(value) THEN SDUUID(LLUUIDFromString(value.str)) ELSE value

\* a string that validates as an identifier becomes that identifier
Coerce(value) ==
    IF isString(value) /\ validate(value.str)
    THEN SDUUID(LLUUIDFromString(value.str))
    ELSE value

\* ReleaseHandles without mImagep = nullptr
ReleaseHandles_KeepsImage(w) ==
    [w EXCEPT !.mImageAssetID = NullID,
              !.mTexturep = NULLPTR,
              !.pixelsAtSet = FALSE,
              !.texRefs = Unref(@, w.mTexturep)]

\* ReleaseHandles without mImageAssetID = LLUUID::null
ReleaseHandles_KeepsAssetID(w) ==
    [w EXCEPT !.mTexturep = NULLPTR,
              !.mImagep = NULLPTR,
              !.pixelsAtSet = FALSE,
              !.texRefs = Unref(@, w.mTexturep),
              !.imgRefs = Unref(@, w.mImagep)]

\* mImageAssetID = LLUUID::null; mTexturep = nullptr; mImagep = nullptr;
ReleaseHandles(w) ==
    [w EXCEPT !.mImageAssetID = NullID,
              !.mTexturep = NULLPTR,
              !.mImagep = NULLPTR,
              !.pixelsAtSet = FALSE,
              !.texRefs = Unref(@, w.mTexturep),
              !.imgRefs = Unref(@, w.mImagep)]

\* the branch of an identifier value; natural is <<getWidth(), getHeight()>>
\* of the texture fetched
FetchTexture(w, id, natural) ==
    IF id = NullID THEN [w EXCEPT !.mImageAssetID = id]
    ELSE LET got == getFetchedTexture(w.tex, id)
         IN [w EXCEPT !.mImageAssetID = id,
                      !.mTexturep = id,
                      !.texRefs = Ref(@, id),
                      !.pixelsAtSet = natural # NoPixels,
                      !.tex = [got EXCEPT ![id].boost = "BOOST_PREVIEW",
                                          ![id].saveRaw = TRUE,
                                          ![id].known = natural]]

\* the branch of a string value
LookupUIImage(w, name) ==
    LET img == getUIImage(name)
    IN [w EXCEPT !.uiQueried = @ \cup {name},
                 !.mImagep = img,
                 !.imgRefs = Ref(@, img),
                 !.mImageAssetID = IF img # NULLPTR /\ IsFetchedTexture(img)
                                   THEN UIImageTextureID(img) ELSE @]

SetValuePost(w, value, natural) ==
    LET tvalue == Coerce(value)
        w1 == [w EXCEPT !.mValue = tvalue, !.uiQueried = {}]
        w2 == ReleaseHandles(w1)
    IN IF isUUID(tvalue) THEN FetchTexture(w2, tvalue.uuid, natural)
       ELSE IF isString(tvalue) THEN LookupUIImage(w2, tvalue.str)
       ELSE w2

\* the part of the state that setValue reads and writes
Widget ==
    [mValue |-> mValue, mImageAssetID |-> mImageAssetID, mTexturep |-> mTexturep,
     mImagep |-> mImagep, tex |-> tex, texRefs |-> texRefs, imgRefs |-> imgRefs,
     pixelsAtSet |-> pixelsAtSet, uiQueried |-> uiQueried]

NoHover ==
    [enabled |-> FALSE, handled |-> FALSE, cursor |-> "unset", base |-> FALSE,
     baseRet |-> FALSE]
NoRead == [read |-> FALSE, loaded |-> FALSE, discard |-> -1, god |-> FALSE]

\* the texture's size is read only when a texture is fetched
ReadsSize(value, natural) ==
    \/ isUUID(Coerce(value)) /\ Coerce(value).uuid # NullID
    \/ natural = NoPixels

SetValue(value, natural) ==
    /\ alive
    /\ ReadsSize(value, natural)
    /\ LET w == SetValuePost(Widget, value, natural)
       IN /\ mValue' = w.mValue
          /\ mImageAssetID' = w.mImageAssetID
          /\ mTexturep' = w.mTexturep
          /\ mImagep' = w.mImagep
          /\ tex' = w.tex
          /\ texRefs' = w.texRefs
          /\ imgRefs' = w.imgRefs
          /\ pixelsAtSet' = w.pixelsAtSet
          /\ uiQueried' = w.uiQueried
    /\ lastOp' = "setValue"
    /\ lastArg' = value
    /\ drawIn' = NoRead
    /\ drawn' = {}
    /\ hoverOut' = NoHover
    /\ UNCHANGED <<alive, mBorderVisible, mInteractable, mShowLoadingPlaceholder,
                   rect>>

----------------------------------------------------------------------------
(* LLThumbnailCtrl::draw *)

\* LLRect::stretch(delta) on the local rectangle (0, height, width, 0),
\* with the makeValid that follows it; the result's width and height
stretch(r, delta) ==
    LET left == 0 - delta
        right == r[1] + delta
        top == r[2] + delta
        bottom == 0 - delta
        validLeft == IF left < right THEN left ELSE right
        validBottom == IF bottom < top THEN bottom ELSE top
    IN <<right - validLeft, top - validBottom>>

\* WorkingRect without the stretch
WorkingRect_NoShrink(r, border) == r

\* draw_rect after the border branch
WorkingRect(r, border) == IF border THEN stretch(r, -1) ELSE r

\* ImagePath whose last branch is taken for a missing texture alone
ImagePath_NoImageBranch(texp, imgp) ==
    IF texp # NULLPTR
    THEN (IF getComponents(texp) = 4 THEN {"checkerboard"} ELSE {})
             \cup {"texture_blit"}
    ELSE (IF imgp # NULLPTR THEN {"uiimage_draw"} ELSE {}) \cup {"grey_fill"}

\* the image path: texture, else ui image, else the fallback
ImagePath(texp, imgp) ==
    IF texp # NULLPTR
    THEN (IF getComponents(texp) = 4 THEN {"checkerboard"} ELSE {})
             \cup {"texture_blit"}
    ELSE IF imgp # NULLPTR THEN {"uiimage_draw"}
    ELSE {"grey_fill", "x_mark"}

\* LoadingLabel with discard >= 1 for discard > 1
LoadingLabel_OffByOne(texp, show, loaded, discard, god) ==
    /\ texp # NULLPTR
    /\ show
    /\ ~loaded
    /\ (discard >= 1 \/ god)

\* LoadingLabel without the discard level test
LoadingLabel_NoDiscardTest(texp, show, loaded, discard, god) ==
    /\ texp # NULLPTR
    /\ show
    /\ ~loaded

\* the condition under which the loading string is rendered
LoadingLabel(texp, show, loaded, discard, god) ==
    /\ texp # NULLPTR
    /\ show
    /\ ~loaded
    /\ (discard > 1 \/ god)

\* loaded, discard and god are what isFullyLoaded(), getDiscardLevel() and
\* gAgent.isGodlike() return during this draw
Draw(loaded, discard, god) ==
    /\ alive
    /\ mTexturep # NULLPTR \/ <<loaded, discard, god>> = <<FALSE, -1, FALSE>>
    /\ LET draw_rect == WorkingRect(rect, mBorderVisible)
       IN /\ drawn' = (IF mBorderVisible THEN {"border_stroke"} ELSE {})
                          \cup ImagePath(mTexturep, mImagep)
                          \cup (IF LoadingLabel(mTexturep, mShowLoadingPlaceholder,
                                                loaded, discard, god)
                                THEN {"loading_label"} ELSE {})
                          \cup {"children"}
          /\ tex' = IF mTexturep # NULLPTR
                    THEN [tex EXCEPT ![mTexturep].known = draw_rect]
                    ELSE tex
    /\ drawIn' = IF mTexturep # NULLPTR
                 THEN [read |-> TRUE, loaded |-> loaded, discard |-> discard,
                       god |-> god]
                 ELSE NoRead
    /\ lastOp' = "draw"
    /\ lastArg' = SDUndef
    /\ uiQueried' = {}
    /\ hoverOut' = NoHover
    /\ UNCHANGED <<alive, mBorderVisible, mInteractable, mShowLoadingPlaceholder,
                   rect, mValue, mImageAssetID, mTexturep, mImagep, texRefs,
                   imgRefs, pixelsAtSet>>

----------------------------------------------------------------------------
(* LLThumbnailCtrl::handleHover *)

\* HoverHandled with || for &&
HoverHandled_Or(interactable, en) == interactable \/ en

\* mInteractable && getEnabled()
HoverHandled(interactable, en) == interactable /\ en

\* en is what getEnabled() returns, baseRet what LLUICtrl::handleHover returns
\* when it is called
HandleHover(en, baseRet) ==
    /\ alive
    /\ hoverOut' = IF HoverHandled(mInteractable, en)
                   THEN [enabled |-> en, handled |-> TRUE, cursor |-> "UI_CURSOR_HAND",
                         base |-> FALSE, baseRet |-> FALSE]
                   ELSE [enabled |-> en, handled |-> baseRet, cursor |-> "unset",
                         base |-> TRUE, baseRet |-> baseRet]
    /\ ~HoverHandled(mInteractable, en) \/ baseRet = FALSE
    /\ lastOp' = "hover"
    /\ lastArg' = SDUndef
    /\ uiQueried' = {}
    /\ drawIn' = NoRead
    /\ drawn' = {}
    /\ UNCHANGED <<alive, mBorderVisible, mInteractable, mShowLoadingPlaceholder,
                   rect, mValue, mImageAssetID, mTexturep, mImagep, tex, texRefs,
                   imgRefs, pixelsAtSet>>

----------------------------------------------------------------------------
(* LLThumbnailCtrl::~LLThumbnailCtrl *)

\* DestructorRelease without mImagep = nullptr
DestructorRelease_LeaksImage(w) ==
    [w EXCEPT !.mTexturep = NULLPTR,
              !.texRefs = Unref(@, w.mTexturep)]

\* mTexturep = nullptr; mImagep = nullptr;
DestructorRelease(w) ==
    [w EXCEPT !.mTexturep = NULLPTR,
              !.mImagep = NULLPTR,
              !.texRefs = Unref(@, w.mTexturep),
              !.imgRefs = Unref(@, w.mImagep)]

Destroy ==
    /\ alive
    /\ alive' = FALSE
    /\ LET w == DestructorRelease(Widget)
       IN /\ mTexturep' = w.mTexturep
          /\ mImagep' = w.mImagep
          /\ texRefs' = w.texRefs
          /\ imgRefs' = w.imgRefs
    /\ lastOp' = "destroy"
    /\ lastArg' = SDUndef
    /\ uiQueried' = {}
    /\ drawIn' = NoRead
    /\ drawn' = {}
    /\ hoverOut' = NoHover
    /\ UNCHANGED <<mBorderVisible, mInteractable, mShowLoadingPlaceholder, rect,
                   mValue, mImageAssetID, tex, pixelsAtSet>>

----------------------------------------------------------------------------
(* LLThumbnailCtrl::LLThumbnailCtrl and the specification *)

Discards == -1 .. MaxDiscard
Rects == {<<MaxSide, MaxSide>>, <<MaxSide + 1, MaxSide>>}

\* the members before the constructor's body runs
Unset ==
    [mValue |-> SDUndef, mImageAssetID |-> NullID, mTexturep |-> NULLPTR,
     mImagep |-> NULLPTR, tex |-> [t \in TexIds |-> FreshTexture],
     texRefs |-> [t \in TexIds |-> 0], imgRefs |-> [i \in UIImages |-> 0],
     pixelsAtSet |-> FALSE, uiQueried |-> {}]

\* the state after construction, image_name provided or not
Constructed(provided, image_name, natural) ==
    IF provided THEN SetValuePost(Unset, image_name, natural) ELSE Unset

Init ==
    /\ alive = TRUE
    /\ mBorderVisible \in BOOLEAN
    /\ mInteractable \in BOOLEAN
    /\ mShowLoadingPlaceholder \in BOOLEAN
    /\ rect \in Rects
    /\ \E provided \in BOOLEAN : \E image_name \in Values : \E natural \in NaturalSizes :
         /\ provided \/ image_name = SDUndef
         /\ ReadsSize(image_name, natural)
         /\ LET w == Constructed(provided, image_name, natural)
            IN /\ mValue = w.mValue
               /\ mImageAssetID = w.mImageAssetID
               /\ mTexturep = w.mTexturep
               /\ mImagep = w.mImagep
               /\ tex = w.tex
               /\ texRefs = w.texRefs
               /\ imgRefs = w.imgRefs
               /\ pixelsAtSet = w.pixelsAtSet
               /\ uiQueried = w.uiQueried
         /\ lastOp = IF provided THEN "setValue" ELSE "construct"
         /\ lastArg = IF provided THEN image_name ELSE SDUndef
    /\ drawIn = NoRead
    /\ drawn = {}
    /\ hoverOut = NoHover

Next ==
    \/ \E value \in Values : \E natural \in NaturalSizes : SetValue(value, natural)
    \/ \E loaded \in BOOLEAN : \E discard \in Discards : \E god \in BOOLEAN :
          Draw(loaded, discard, god)
    \/ \E en \in BOOLEAN : \E baseRet \in BOOLEAN : HandleHover(en, baseRet)
    \/ Destroy

Spec == Init /\ [][Next]_vars

----------------------------------------------------------------------------
(* The properties *)

Label == "loading_label"
BothNull == mTexturep = NULLPTR /\ mImagep = NULLPTR
ValidString(v) == isString(v) /\ validate(v.str)

\* C1: after construction and after every setValue, at most one of mTexturep
\* and mImagep is non-null.
C1_AtMostOneHandle == ~(mTexturep # NULLPTR /\ mImagep # NULLPTR)

\* a ui image is held after a setValue, and texture 1 was held before it
C1_Witness ==
    /\ lastOp = "setValue"
    /\ mImagep # NULLPTR
    /\ tex[1].mID # NullID

\* C2: setValue(s), for a string s that validates as an identifier, leaves
\* the state that setValue(identifier(s)) leaves from the same prior state:
\* the stored value is the identifier, the image asset identifier is the
\* identifier, the handle held is the fetched texture's when the identifier
\* is not null, no ui image is held, and the registry is not asked for s.
C2_StringStep ==
    (lastOp' = "setValue" /\ ValidString(lastArg')) =>
        LET id == LLUUIDFromString(lastArg'.str)
        IN /\ \E natural \in NaturalSizes :
                  Widget' = SetValuePost(Widget, SDUUID(id), natural)
           /\ mValue' = SDUUID(id)
           /\ mImageAssetID' = id
           /\ mImagep' = NULLPTR
           /\ (id # NullID) => (mTexturep' # NULLPTR /\ tex'[mTexturep'].mID = id)
           /\ (id = NullID) => (mTexturep' = NULLPTR)
           /\ uiQueried' = {}

\* the same outcome in a state, which covers the constructor's setValue of
\* image_name
C2_StringState ==
    (lastOp = "setValue" /\ ValidString(lastArg)) =>
        LET id == LLUUIDFromString(lastArg.str)
        IN /\ mValue = SDUUID(id)
           /\ mImageAssetID = id
           /\ mImagep = NULLPTR
           /\ (id # NullID) => (mTexturep # NULLPTR /\ tex[mTexturep].mID = id)
           /\ (id = NullID) => (mTexturep = NULLPTR)
           /\ uiQueried = {}

C2_StringAsIdentifier == []C2_StringState /\ [][C2_StringStep]_vars

\* setValue of the upper-case text of identifier 10 holds its texture
C2_Witness ==
    /\ lastOp = "setValue"
    /\ lastArg = SDString(toString(10, TRUE, FALSE))
    /\ mValue = SDUUID(10)
    /\ mTexturep # NULLPTR
    /\ tex[10].saveRaw

\* C3: the image asset identifier agrees with the handle held: with a
\* fetched texture it is the non-null identifier the texture was fetched
\* with, with a ui image backed by a fetched texture it is that texture's
\* identifier, and in every other case it is null.
C3_AssetIDAgrees ==
    alive =>
        /\ (mTexturep # NULLPTR) =>
              /\ tex[mTexturep].mID # NullID
              /\ mImageAssetID = tex[mTexturep].mID
        /\ (mTexturep = NULLPTR /\ mImagep # NULLPTR /\ IsFetchedTexture(mImagep)) =>
              mImageAssetID = UIImageTextureID(mImagep)
        /\ (mTexturep = NULLPTR /\ ~(mImagep # NULLPTR /\ IsFetchedTexture(mImagep))) =>
              mImageAssetID = NullID
        /\ (lastOp = "setValue" /\ isUUID(lastArg)) => mImageAssetID = lastArg.uuid

\* a ui image that no fetched texture backs is held, after texture 10 was
C3_Witness ==
    /\ lastOp = "setValue"
    /\ mImagep # NULLPTR
    /\ ~IsFetchedTexture(mImagep)
    /\ mImageAssetID = NullID
    /\ tex[10].mID # NullID

\* C4: a draw renders the loading label iff a fetched texture is held,
\* show_loading is set, the texture is not fully loaded, and its discard
\* level is above 1 or the session is godlike; without show_loading no draw
\* renders it.
C4_LoadingLabelIff ==
    /\ (lastOp = "draw") =>
          ((Label \in drawn) <=>
              /\ mTexturep # NULLPTR
              /\ mShowLoadingPlaceholder
              /\ ~drawIn.loaded
              /\ (drawIn.discard > 1 \/ drawIn.god))
    /\ ~mShowLoadingPlaceholder => Label \notin drawn
    /\ (lastOp # "draw") => drawn = {}

\* the label is rendered at discard level 1 because the session is godlike
C4_Witness ==
    /\ lastOp = "draw"
    /\ Label \in drawn
    /\ drawIn.discard = 1
    /\ drawIn.god

C6_References ==
    /\ \A t \in TexIds : texRefs[t] = IF mTexturep = t THEN 1 ELSE 0
    /\ \A i \in UIImages : imgRefs[i] = IF mImagep = i THEN 1 ELSE 0
    /\ ~alive => BothNull
    /\ (lastOp = "setValue" /\ isUUID(lastArg) /\ lastArg.uuid # NullID) =>
          (mTexturep # NULLPTR /\ tex[mTexturep].mID = lastArg.uuid)

\* destroyed, after both textures had been held
C6_Witness ==
    /\ ~alive
    /\ tex[1].mID # NullID
    /\ tex[10].mID # NullID
    /\ texRefs[1] = 0
    /\ texRefs[10] = 0

\* C7: after construction without an image, and after setValue of null, of
\* another variant, of the null identifier or of a string that names no
\* registered ui image, both handles are null; a draw with both handles null
\* fills grey and strokes the X, and issues no texture blit, no ui image
\* draw, no checkerboard and no loading label.
C7_Fallback ==
    /\ (lastOp = "construct") => BothNull
    /\ (lastOp = "setValue" /\ lastArg.type \in {"undef", "integer"}) => BothNull
    /\ (lastOp = "setValue" /\ lastArg = SDUUID(NullID)) => BothNull
    /\ (lastOp = "setValue" /\ ValidString(lastArg)
            /\ LLUUIDFromString(lastArg.str) = NullID) => BothNull
    /\ (lastOp = "setValue" /\ isString(lastArg) /\ ~ValidString(lastArg)
            /\ getUIImage(lastArg.str) = NULLPTR) => BothNull
    /\ (lastOp = "draw" /\ BothNull) =>
          drawn \ {"border_stroke", "children"} = {"grey_fill", "x_mark"}
    /\ (lastOp = "draw" /\ ~BothNull) =>
          drawn \cap {"grey_fill", "x_mark"} = {}

\* a draw of the fallback for a string that names no registered ui image
C7_Witness ==
    /\ lastOp = "draw"
    /\ mValue = SDString(NoName)
    /\ BothNull
    /\ "x_mark" \in drawn

\* C8, as claimed: the stored value is null, a string or an identifier, and
\* never a string that validates as an identifier.
C8_AsClaimed ==
    /\ mValue.type \in {"undef", "string", "uuid"}
    /\ ~ValidString(mValue)

\* C8, amended: the stored value is never a string that validates as an
\* identifier; such a string is stored as the identifier parsed from it and
\* every other argument is stored unchanged, so the stored value is null, a
\* string or an identifier whenever the argument was one of these.
C8_StoredValue ==
    /\ ~ValidString(mValue)
    /\ (lastOp = "setValue") =>
          /\ ValidString(lastArg) => mValue = SDUUID(LLUUIDFromString(lastArg.str))
          /\ ~ValidString(lastArg) => mValue = lastArg
          /\ (lastArg.type \in {"undef", "string", "uuid"}) =>
                mValue.type \in {"undef", "string", "uuid"}

\* the text of identifier 1 without its last hyphen is stored as identifier 1
C8_Witness ==
    /\ lastOp = "setValue"
    /\ lastArg = SDString(toString(1, FALSE, TRUE))
    /\ mValue = SDUUID(1)

\* C9: handleHover returns true and sets the hand cursor iff the widget is
\* interactable and enabled; otherwise it sets no cursor, calls the base
\* class and returns what the base class returns.
C9_Hover ==
    (lastOp = "hover") =>
        /\ (hoverOut.cursor = "UI_CURSOR_HAND") <=> (mInteractable /\ hoverOut.enabled)
        /\ (mInteractable /\ hoverOut.enabled) => (hoverOut.handled /\ ~hoverOut.base)
        /\ ~(mInteractable /\ hoverOut.enabled) =>
              /\ hoverOut.base
              /\ hoverOut.handled = hoverOut.baseRet

\* an interactable but disabled widget returns the base class's TRUE
C9_Witness ==
    /\ lastOp = "hover"
    /\ mInteractable
    /\ ~hoverOut.enabled
    /\ hoverOut.handled
    /\ hoverOut.cursor = "unset"

\* C10: a draw leaves the stored value, the image asset identifier, both
\* handles and their references as they were, and writes to the textures
\* only the held texture's known draw size: the local rectangle's width and
\* height, each less 2 when the border is visible.
C10_DrawStep ==
    (lastOp' = "draw") =>
        /\ mValue' = mValue
        /\ mImageAssetID' = mImageAssetID
        /\ mTexturep' = mTexturep
        /\ mImagep' = mImagep
        /\ texRefs' = texRefs
        /\ imgRefs' = imgRefs
        /\ tex' = IF mTexturep = NULLPTR THEN tex
                  ELSE [tex EXCEPT ![mTexturep].known =
                            IF mBorderVisible THEN <<rect[1] - 2, rect[2] - 2>>
                            ELSE rect]

C10_DrawFrame == [][C10_DrawStep]_vars

\* a draw with the border visible replaced the natural size by the shrunk one
C10_Witness ==
    /\ lastOp = "draw"
    /\ mBorderVisible
    /\ mTexturep # NULLPTR
    /\ pixelsAtSet
    /\ tex[mTexturep].known = <<rect[1] - 2, rect[2] - 2>>

====
